---- MODULE Spec2Model ----
(***************************************************************************)
(* Model of the schedule validator run_scheduler_check.py:                 *)
(*   find_related_appointment   the windowed lookup                       *)
(*   check_patient_schedule     the per-patient rule evaluation           *)
(*   the __main__ script        load, filter, group, scan, report         *)
(*                                                                         *)
(* A timestamp is a number of slots since day 0; a day has SlotsPerDay     *)
(* slots, so date(t) is the calendar date of t and timedelta(n) is n days. *)
(* A DataFrame is a sequence of rows (row order is the frame's order).     *)
(* A flag is the tuple of the parts that make up its message text.         *)
(***************************************************************************)
EXTENDS Integers, Sequences, FiniteSets, TLC

\* ---------------------------------------------------------------- bounds
MaxAppts == 3
MaxRows == 3
MaxLookupRows == 3
SlotsPerDay == 2
NumPatients == 2
NumSchedulers == 2

\* ------------------------------------------------------ program constants
LOOKAHEAD_DAYS == 120
LabWindowDays == 7
MammoWindowDays == 14
SimWindowDays == 14

\* ------------------------------------------------------------ time model
timedelta(days) == days * SlotsPerDay

date(t) == t \div SlotsPerDay

Slots == 0 .. (SlotsPerDay - 1)

At(day, slot) == day * SlotsPerDay + slot

\* Days chosen so that gaps of 0, 1, 2, 6, 7, 8, 13, 14 and 15 days all occur,
\* each with every slot offset (a window edge is hit exactly and missed by a slot).
Days == {0, 1, 2, LabWindowDays + 1, MammoWindowDays + 1}

Times == {At(d, s) : d \in Days, s \in Slots}

ApptTypes ==
  {"Lab", "Chemo", "Mammogram", "Oncology Visit", "CT Simulation",
   "Radiation Therapy", "PET-CT"}

Appts == [APPT_TYPE : ApptTypes, APPT_DTTM : Times]

Range(s) == {s[i] : i \in DOMAIN s}

SeqsUpTo(S, n) == UNION {[1 .. k -> S] : k \in 0 .. n}

\* --------------------------------------------------------------- lookup
None == <<>>

Some(t) == <<t>>

\* Mutant: window closed at the start only (the end bound is strict).
find_related_appointment_open(df, appt_type, base_time, time_window_days) ==
  LET start_window == base_time - timedelta(time_window_days)
      end_window == base_time + timedelta(time_window_days)
      related_appts ==
        SelectSeq(df, LAMBDA r : /\ r.APPT_TYPE = appt_type
                                 /\ r.APPT_DTTM >= start_window
                                 /\ r.APPT_DTTM < end_window)
  IN IF related_appts # <<>> THEN Some(related_appts[1].APPT_DTTM) ELSE None

\* Mutant: the last matching row instead of the first.
find_related_appointment_last(df, appt_type, base_time, time_window_days) ==
  LET start_window == base_time - timedelta(time_window_days)
      end_window == base_time + timedelta(time_window_days)
      related_appts ==
        SelectSeq(df, LAMBDA r : /\ r.APPT_TYPE = appt_type
                                 /\ r.APPT_DTTM >= start_window
                                 /\ r.APPT_DTTM <= end_window)
  IN IF related_appts # <<>>
       THEN Some(related_appts[Len(related_appts)].APPT_DTTM)
       ELSE None

find_related_appointment(df, appt_type, base_time, time_window_days) ==
  LET start_window == base_time - timedelta(time_window_days)
      end_window == base_time + timedelta(time_window_days)
      related_appts ==
        SelectSeq(df, LAMBDA r : /\ r.APPT_TYPE = appt_type
                                 /\ r.APPT_DTTM >= start_window
                                 /\ r.APPT_DTTM <= end_window)
  IN IF related_appts # <<>> THEN Some(related_appts[1].APPT_DTTM) ELSE None

\* ---------------------------------------------------------------- flags
\* The message texts, by their variable parts (the dates printed in them).
CriticalNoLab(appt_time) == <<"Critical Error: no Lab", date(appt_time)>>

OrderLabAfter(lab_time, appt_time) ==
  <<"Order Error: Lab AFTER Chemo", date(lab_time), date(appt_time)>>

TimingSameDay(lab_time, appt_time) ==
  <<"Timing Error: Lab same day as Chemo", date(lab_time), date(appt_time)>>

OrderVisitBefore(mammo_time, appt_time) ==
  <<"Order Error: Visit BEFORE Mammogram", date(appt_time), date(mammo_time)>>

TimingTooSoon(mammo_time, appt_time) ==
  <<"Timing Error: Visit too soon after Mammogram", date(appt_time),
    date(mammo_time)>>

OrderRadBefore(sim_time, appt_time) ==
  <<"Order Error: Radiation Therapy BEFORE CT Simulation", date(appt_time),
    date(sim_time)>>

Kind(flag) == flag[1]

\* ------------------------------------------------- rules, one per trigger
\* Mutant: `>=` for `>`, so a Lab at the Chemo's own timestamp counts as after.
ChemoRule_geq(df, appt_time) ==
  LET lab_time == find_related_appointment(df, "Lab", appt_time, LabWindowDays)
  IN IF lab_time = None
       THEN <<CriticalNoLab(appt_time)>>
       ELSE IF lab_time[1] >= appt_time
              THEN <<OrderLabAfter(lab_time[1], appt_time)>>
              ELSE IF date(appt_time) - date(lab_time[1]) < 1
                     THEN <<TimingSameDay(lab_time[1], appt_time)>>
                     ELSE <<>>

\* Mutant: `<= 1` for `< 1`, so a Lab on the previous date is still too close.
ChemoRule_gapLe1(df, appt_time) ==
  LET lab_time == find_related_appointment(df, "Lab", appt_time, LabWindowDays)
  IN IF lab_time = None
       THEN <<CriticalNoLab(appt_time)>>
       ELSE IF lab_time[1] > appt_time
              THEN <<OrderLabAfter(lab_time[1], appt_time)>>
              ELSE IF date(appt_time) - date(lab_time[1]) <= 1
                     THEN <<TimingSameDay(lab_time[1], appt_time)>>
                     ELSE <<>>

ChemoRule(df, appt_time) ==
  LET lab_time == find_related_appointment(df, "Lab", appt_time, LabWindowDays)
  IN IF lab_time = None
       THEN <<CriticalNoLab(appt_time)>>
       ELSE IF lab_time[1] > appt_time
              THEN <<OrderLabAfter(lab_time[1], appt_time)>>
              ELSE IF date(appt_time) - date(lab_time[1]) < 1
                     THEN <<TimingSameDay(lab_time[1], appt_time)>>
                     ELSE <<>>

\* Mutant: two independent `if`s instead of `if`/`elif`.
VisitRule_bothIfs(df, appt_time) ==
  LET mammo_time ==
        find_related_appointment(df, "Mammogram", appt_time, MammoWindowDays)
  IN (IF mammo_time # None /\ mammo_time[1] > appt_time
        THEN <<OrderVisitBefore(mammo_time[1], appt_time)>> ELSE <<>>)
     \o (IF mammo_time # None /\ date(appt_time) - date(mammo_time[1]) < 2
           THEN <<TimingTooSoon(mammo_time[1], appt_time)>> ELSE <<>>)

\* Mutant: `<= 2` for `< 2`.
VisitRule_gapLe2(df, appt_time) ==
  LET mammo_time ==
        find_related_appointment(df, "Mammogram", appt_time, MammoWindowDays)
  IN IF mammo_time # None /\ mammo_time[1] > appt_time
       THEN <<OrderVisitBefore(mammo_time[1], appt_time)>>
       ELSE IF mammo_time # None /\ date(appt_time) - date(mammo_time[1]) <= 2
              THEN <<TimingTooSoon(mammo_time[1], appt_time)>>
              ELSE <<>>

VisitRule(df, appt_time) ==
  LET mammo_time ==
        find_related_appointment(df, "Mammogram", appt_time, MammoWindowDays)
  IN IF mammo_time # None /\ mammo_time[1] > appt_time
       THEN <<OrderVisitBefore(mammo_time[1], appt_time)>>
       ELSE IF mammo_time # None /\ date(appt_time) - date(mammo_time[1]) < 2
              THEN <<TimingTooSoon(mammo_time[1], appt_time)>>
              ELSE <<>>

RadiationRule(df, appt_time) ==
  LET sim_time ==
        find_related_appointment(df, "CT Simulation", appt_time, SimWindowDays)
  IN IF sim_time # None /\ sim_time[1] > appt_time
       THEN <<OrderRadBefore(sim_time[1], appt_time)>>
       ELSE <<>>

\* The flags one loop iteration appends, in append order.
ApptFlags(df, current_appt) ==
  LET appt_type == current_appt.APPT_TYPE
      appt_time == current_appt.APPT_DTTM
  IN (IF appt_type = "Chemo" THEN ChemoRule(df, appt_time) ELSE <<>>)
     \o (IF appt_type = "Oncology Visit" THEN VisitRule(df, appt_time) ELSE <<>>)
     \o (IF appt_type = "Radiation Therapy"
           THEN RadiationRule(df, appt_time) ELSE <<>>)

\* ----------------------------------------------------------------- sort
IsPermutation(p, n) == \A i, j \in 1 .. n : p[i] = p[j] => i = j

Ascending(s) == \A i \in 1 .. (Len(s) - 1) : s[i].APPT_DTTM <= s[i + 1].APPT_DTTM

Reorderings(df) ==
  {[i \in 1 .. Len(df) |-> df[p[i]]] :
     p \in {q \in [1 .. Len(df) -> 1 .. Len(df)] : IsPermutation(q, Len(df))}}

\* Mutant: the frame is left in its row order.
sort_values_none(df) == {df}

\* sort_values('APPT_DTTM'): ascending by timestamp; the default sort is not
\* stable, so rows of equal timestamp come out in any order.
sort_values(df) == {s \in Reorderings(df) : Ascending(s)}

\* ------------------------------------------------- check_patient_schedule
RECURSIVE Concat(_)
Concat(ss) == IF ss = <<>> THEN <<>> ELSE Head(ss) \o Concat(Tail(ss))

\* Mutant: only the newest appointment is checked.
LoopEmits_newestOnly(sorted) ==
  [i \in 1 .. Len(sorted) |->
     IF i = Len(sorted) THEN ApptFlags(sorted, sorted[i]) ELSE <<>>]

\* What each iteration of the loop over the sorted frame appends.
LoopEmits(sorted) == [i \in 1 .. Len(sorted) |-> ApptFlags(sorted, sorted[i])]

\* Mutant: the flag list is returned as built.
UniqueLists_asBuilt(fl) == {fl}

\* list(set(flags)): the distinct flags, in the set's (unspecified) order.
UniqueLists(fl) ==
  LET S == Range(fl)
      n == Cardinality(S)
  IN {l \in [1 .. n -> S] : Range(l) = S}

\* Every list check_patient_schedule may return for a frame (the sort's tie
\* order and the set's iteration order are not fixed).
check_patient_schedule(appts) ==
  UNION {UniqueLists(Concat(LoopEmits(s))) : s \in sort_values(appts)}

\* ------------------------------------------------------------------ state
VARIABLES
  pc,            \* position of the run
  patient_appts, \* check_patient_schedule: the frame passed in
  sorted_appts,  \*   the frame after sort_values
  emitted,       \*   per row of sorted_appts, the flags its iteration appended
  flags,         \*   the list `flags` when the loop ends
  returned,      \*   the list returned
  lk_args,       \* find_related_appointment: appt_type, base_time, window
  lk_result,     \*   its return value
  file_exists,   \* script: whether INPUT_FILE is present
  file_rows,     \*   the rows INPUT_FILE holds
  df_all,        \*   the loaded table
  today,         \*   datetime.now()
  df_filtered,   \*   the table after the date filter
  todo,          \*   patients the groupby loop has still to visit
  all_flags,     \*   the collected records
  console        \*   what the script has printed

vars ==
  <<pc, patient_appts, sorted_appts, emitted, flags, returned, lk_args,
    lk_result, file_exists, file_rows, df_all, today, df_filtered, todo, all_flags,
    console>>

patientVars == <<patient_appts, sorted_appts, emitted, flags, returned>>

lookupVars == <<lk_args, lk_result>>

scriptVars ==
  <<file_exists, file_rows, df_all, today, df_filtered, todo, all_flags, console>>

PatientIdle ==
  /\ patient_appts = <<>>
  /\ sorted_appts = <<>>
  /\ emitted = <<>>
  /\ flags = <<>>
  /\ returned = <<>>

LookupIdle ==
  /\ lk_args = <<>>
  /\ lk_result = None

ScriptIdle ==
  /\ file_exists = FALSE
  /\ file_rows = <<>>
  /\ df_all = <<>>
  /\ today = 0
  /\ df_filtered = <<>>
  /\ todo = <<>>
  /\ all_flags = <<>>
  /\ console = <<>>

\* ------------------------------ check_patient_schedule on one patient set
InitPatient ==
  /\ pc = "call"
  /\ patient_appts \in SeqsUpTo(Appts, MaxAppts)
  /\ sorted_appts = <<>>
  /\ emitted = <<>>
  /\ flags = <<>>
  /\ returned = <<>>
  /\ LookupIdle
  /\ ScriptIdle

\* ---- what can raise inside check_patient_schedule
\* `x > appt_time` with x None raises TypeError.
NoneCompared(x) == x = None

\* related_appts['APPT_DTTM'].iloc[0] raises IndexError on an empty frame;
\* it is taken only under `if not related_appts.empty`.
LookupRaises(df, appt_type, base_time, time_window_days) ==
  LET start_window == base_time - timedelta(time_window_days)
      end_window == base_time + timedelta(time_window_days)
      related_appts ==
        SelectSeq(df, LAMBDA r : /\ r.APPT_TYPE = appt_type
                                 /\ r.APPT_DTTM >= start_window
                                 /\ r.APPT_DTTM <= end_window)
  IN IF related_appts # <<>> THEN Len(related_appts) < 1 ELSE FALSE

\* Line 47 compares lab_time only in the else of `lab_time is None`.
ChemoRaises(df, appt_time) ==
  LET lab_time == find_related_appointment(df, "Lab", appt_time, LabWindowDays)
  IN \/ LookupRaises(df, "Lab", appt_time, LabWindowDays)
     \/ IF lab_time = None THEN FALSE ELSE NoneCompared(lab_time)

\* Mutant: the comparison is made without the `mammo_time and` guard.
VisitRaises_noGuard(df, appt_time) ==
  LET mammo_time ==
        find_related_appointment(df, "Mammogram", appt_time, MammoWindowDays)
  IN \/ LookupRaises(df, "Mammogram", appt_time, MammoWindowDays)
     \/ NoneCompared(mammo_time)

\* Lines 55 and 57: `mammo_time and ...` short-circuits on None.
VisitRaises(df, appt_time) ==
  LET mammo_time ==
        find_related_appointment(df, "Mammogram", appt_time, MammoWindowDays)
  IN \/ LookupRaises(df, "Mammogram", appt_time, MammoWindowDays)
     \/ mammo_time # None /\ NoneCompared(mammo_time)

\* Line 63: `sim_time and ...` short-circuits on None.
RadiationRaises(df, appt_time) ==
  LET sim_time ==
        find_related_appointment(df, "CT Simulation", appt_time, SimWindowDays)
  IN \/ LookupRaises(df, "CT Simulation", appt_time, SimWindowDays)
     \/ sim_time # None /\ NoneCompared(sim_time)

ApptRaises(df, current_appt) ==
  LET appt_type == current_appt.APPT_TYPE
      appt_time == current_appt.APPT_DTTM
  IN \/ appt_type = "Chemo" /\ ChemoRaises(df, appt_time)
     \/ appt_type = "Oncology Visit" /\ VisitRaises(df, appt_time)
     \/ appt_type = "Radiation Therapy" /\ RadiationRaises(df, appt_time)

\* The call either returns its list or ends by an exception ("raised").
CheckPatientSchedule ==
  /\ pc = "call"
  /\ \E s \in sort_values(patient_appts) :
       /\ sorted_appts' = s
       /\ IF \E i \in DOMAIN s : ApptRaises(s, s[i])
            THEN /\ emitted' = <<>>
                 /\ flags' = <<>>
                 /\ returned' = <<>>
                 /\ pc' = "raised"
            ELSE /\ emitted' = LoopEmits(s)
                 /\ flags' = Concat(LoopEmits(s))
                 /\ returned' \in UniqueLists(Concat(LoopEmits(s)))
                 /\ pc' = "returned"
  /\ UNCHANGED <<patient_appts, lookupVars, scriptVars>>

NextPatient == CheckPatientSchedule

SpecPatient == InitPatient /\ [][NextPatient]_vars

\* ------------------------------------------- what the claims speak about
\* The timestamps of the rows of `rows` of type `appt_type` lying in
\* [base_time - w days, base_time + w days].
InInterval(rows, appt_type, base_time, w) ==
  {r.APPT_DTTM : r \in {x \in Range(rows) :
     /\ x.APPT_TYPE = appt_type
     /\ base_time - w * SlotsPerDay <= x.APPT_DTTM
     /\ x.APPT_DTTM <= base_time + w * SlotsPerDay}}

Lowest(S) == CHOOSE x \in S : \A y \in S : x <= y

NoDuplicates(l) == \A i, j \in DOMAIN l : l[i] = l[j] => i = j

Returned == pc = "returned"

RowsOfType(rows, appt_type) == {i \in DOMAIN rows : rows[i].APPT_TYPE = appt_type}

\* The patient set is one Lab and one Chemo on the same calendar date.
LabChemoSameDate ==
  /\ Len(patient_appts) = 2
  /\ \E i, j \in 1 .. 2 :
       /\ patient_appts[i].APPT_TYPE = "Lab"
       /\ patient_appts[j].APPT_TYPE = "Chemo"
       /\ date(patient_appts[i].APPT_DTTM) = date(patient_appts[j].APPT_DTTM)

TheLab == patient_appts[CHOOSE i \in 1 .. 2 : patient_appts[i].APPT_TYPE = "Lab"]

TheChemo ==
  patient_appts[CHOOSE i \in 1 .. 2 : patient_appts[i].APPT_TYPE = "Chemo"]

\* C1 as stated: a Lab and a Chemo on one calendar date always yield exactly
\* the same-day timing flag.
C1_SameDateAlwaysSameDay ==
  (Returned /\ LabChemoSameDate) =>
    returned = <<TimingSameDay(TheLab.APPT_DTTM, TheChemo.APPT_DTTM)>>

\* C1 amended: for a Lab and a Chemo on one calendar date, exactly one flag is
\* returned: the same-day timing flag when the Lab's timestamp is not later
\* than the Chemo's, the 'Lab is AFTER Chemo' flag when it is later; never
\* the 'no Lab' flag.
C1_SameDate ==
  (Returned /\ LabChemoSameDate) =>
    returned =
      IF TheLab.APPT_DTTM <= TheChemo.APPT_DTTM
        THEN <<TimingSameDay(TheLab.APPT_DTTM, TheChemo.APPT_DTTM)>>
        ELSE <<OrderLabAfter(TheLab.APPT_DTTM, TheChemo.APPT_DTTM)>>

C1_Witness ==
  /\ Returned
  /\ LabChemoSameDate
  /\ TheLab.APPT_DTTM < TheChemo.APPT_DTTM
  /\ returned = <<TimingSameDay(TheLab.APPT_DTTM, TheChemo.APPT_DTTM)>>

\* C3: a Chemo at T with no Lab of the patient in [T - 7 days, T + 7 days]
\* contributes exactly the 'no Lab' flag, and a Chemo contributes the
\* 'no Lab' flag only when that interval holds no Lab.
C3_NoLabFlag ==
  Returned =>
    \A i \in RowsOfType(sorted_appts, "Chemo") :
      LET T == sorted_appts[i].APPT_DTTM
          labs == InInterval(patient_appts, "Lab", T, 7)
      IN /\ labs = {} => emitted[i] = <<CriticalNoLab(T)>>
         /\ CriticalNoLab(T) \in Range(emitted[i]) => labs = {}

C3_Witness ==
  /\ Returned
  /\ RowsOfType(patient_appts, "Lab") # {}
  /\ \E i \in RowsOfType(sorted_appts, "Chemo") :
       /\ InInterval(patient_appts, "Lab", sorted_appts[i].APPT_DTTM, 7) = {}
       /\ emitted[i] = <<CriticalNoLab(sorted_appts[i].APPT_DTTM)>>
       /\ CriticalNoLab(sorted_appts[i].APPT_DTTM) \in Range(returned)

\* C4: an Oncology Visit contributes at most one flag, and when the earliest
\* Mammogram within 14 days of it is later than the visit, that flag is the
\* 'Visit BEFORE Mammogram' one and not 'too soon'.
C4_VisitOneFlag ==
  Returned =>
    \A i \in RowsOfType(sorted_appts, "Oncology Visit") :
      LET T == sorted_appts[i].APPT_DTTM
          mammos == InInterval(patient_appts, "Mammogram", T, 14)
      IN /\ Len(emitted[i]) <= 1
         /\ (mammos # {} /\ Lowest(mammos) > T) =>
              emitted[i] = <<OrderVisitBefore(Lowest(mammos), T)>>

\* A visit one day before its Mammogram: only the 'before' flag.
C4_Witness ==
  /\ Returned
  /\ \E i \in RowsOfType(sorted_appts, "Oncology Visit") :
       LET T == sorted_appts[i].APPT_DTTM
       IN /\ InInterval(patient_appts, "Mammogram", T, 14) = {T + SlotsPerDay}
          /\ emitted[i] = <<OrderVisitBefore(T + SlotsPerDay, T)>>
          /\ returned = <<OrderVisitBefore(T + SlotsPerDay, T)>>

\* The set's only Mammogram is at T and its only Oncology Visit a day later.
MammoThenVisitNextDay ==
  /\ Cardinality(RowsOfType(patient_appts, "Mammogram")) = 1
  /\ Cardinality(RowsOfType(patient_appts, "Oncology Visit")) = 1
  /\ \E i \in RowsOfType(patient_appts, "Mammogram") :
       \E j \in RowsOfType(patient_appts, "Oncology Visit") :
         patient_appts[j].APPT_DTTM = patient_appts[i].APPT_DTTM + SlotsPerDay

TheMammo ==
  patient_appts[CHOOSE i \in DOMAIN patient_appts :
                  patient_appts[i].APPT_TYPE = "Mammogram"]

TheVisit ==
  patient_appts[CHOOSE i \in DOMAIN patient_appts :
                  patient_appts[i].APPT_TYPE = "Oncology Visit"]

VisitKinds ==
  {"Order Error: Visit BEFORE Mammogram",
   "Timing Error: Visit too soon after Mammogram"}

\* 'too soon' is contributed by a visit exactly when the earliest Mammogram
\* within 14 days is not later than the visit and the date gap is 0 or 1.
TooSoonExactly ==
  \A i \in RowsOfType(sorted_appts, "Oncology Visit") :
    LET T == sorted_appts[i].APPT_DTTM
        mammos == InInterval(patient_appts, "Mammogram", T, 14)
    IN (\E f \in Range(emitted[i]) :
          Kind(f) = "Timing Error: Visit too soon after Mammogram")
       <=> /\ mammos # {}
           /\ Lowest(mammos) <= T
           /\ date(T) - date(Lowest(mammos)) \in {0, 1}
           /\ emitted[i] = <<TimingTooSoon(Lowest(mammos), T)>>

C6_LabDayBefore ==
  Returned =>
    \A i \in RowsOfType(sorted_appts, "Chemo") :
      (\E j \in RowsOfType(sorted_appts, "Lab") :
         sorted_appts[i].APPT_DTTM = sorted_appts[j].APPT_DTTM + SlotsPerDay)
        => emitted[i] = <<>>

\* A Lab, the Chemo a day later, and a second Lab at or after the Chemo.
C6_Witness ==
  /\ Returned
  /\ \E i \in RowsOfType(sorted_appts, "Chemo") :
       /\ \E j \in RowsOfType(sorted_appts, "Lab") :
            sorted_appts[i].APPT_DTTM = sorted_appts[j].APPT_DTTM + SlotsPerDay
       /\ \E k \in RowsOfType(sorted_appts, "Lab") :
            sorted_appts[k].APPT_DTTM >= sorted_appts[i].APPT_DTTM
       /\ emitted[i] = <<>>
       /\ returned = <<>>

\* C7: a Radiation Therapy at T contributes the 'BEFORE CT Simulation' flag
\* exactly when a CT Simulation lies in [T - 14 days, T + 14 days] and the
\* earliest such one is strictly later than T; otherwise it contributes nothing.
C7_RadiationBefore ==
  Returned =>
    \A i \in RowsOfType(sorted_appts, "Radiation Therapy") :
      LET T == sorted_appts[i].APPT_DTTM
          sims == InInterval(patient_appts, "CT Simulation", T, 14)
      IN emitted[i] =
           IF sims # {} /\ Lowest(sims) > T
             THEN <<OrderRadBefore(Lowest(sims), T)>>
             ELSE <<>>

\* Two CT Simulations in the window, one before and one after the therapy:
\* no flag; and a therapy whose only CT Simulation is later: the flag.
C7_Witness ==
  /\ Returned
  /\ \E i \in RowsOfType(sorted_appts, "Radiation Therapy") :
       LET T == sorted_appts[i].APPT_DTTM
           sims == InInterval(patient_appts, "CT Simulation", T, 14)
       IN /\ \E a, b \in sims : a < T /\ b > T
          /\ emitted[i] = <<>>

\* C10: the returned collection never holds the same message twice, and
\* holds every message the loop produced.
C10_Unique ==
  Returned => (NoDuplicates(returned) /\ Range(returned) = Range(flags))

\* Two triggers produced the same message; it is returned once.
C10_Witness ==
  /\ Returned
  /\ Len(flags) = 2
  /\ flags[1] = flags[2]
  /\ Len(returned) = 1

\* ------------------------------- find_related_appointment called directly
LookupDays == {0, 1, LabWindowDays + 1}

LookupTimes == {At(d, sl) : d \in LookupDays, sl \in Slots}

LookupTypes == {"Lab", "Mammogram"}

LookupWindows == {0, LabWindowDays, MammoWindowDays}

LookupAppts == [APPT_TYPE : LookupTypes, APPT_DTTM : LookupTimes]

InitLookup ==
  /\ pc = "lookup"
  /\ lk_args \in [df : SeqsUpTo(LookupAppts, MaxLookupRows),
                  appt_type : LookupTypes,
                  base_time : LookupTimes,
                  time_window_days : LookupWindows]
  /\ lk_result = None
  /\ PatientIdle
  /\ ScriptIdle

FindRelatedAppointment ==
  /\ pc = "lookup"
  /\ lk_result' =
       find_related_appointment(lk_args.df, lk_args.appt_type,
                                lk_args.base_time, lk_args.time_window_days)
  /\ pc' = "looked"
  /\ UNCHANGED <<lk_args, patientVars, scriptVars>>

NextLookup == FindRelatedAppointment

SpecLookup == InitLookup /\ [][NextLookup]_vars

Looked == pc = "looked"

LkCandidates ==
  InInterval(lk_args.df, lk_args.appt_type, lk_args.base_time,
             lk_args.time_window_days)

LkMatches(i) ==
  /\ lk_args.df[i].APPT_TYPE = lk_args.appt_type
  /\ lk_args.df[i].APPT_DTTM \in LkCandidates

\* C2 as stated: for rows in any order the lookup returns the lowest
\* timestamp of the type in [reference - w, reference + w], None when none.
C2_LowestAnyOrder ==
  Looked =>
    lk_result = IF LkCandidates = {} THEN None ELSE Some(Lowest(LkCandidates))

\* C2 amended: the lookup returns None exactly when no appointment of the
\* type lies in [reference - w days, reference + w days] (bounds inclusive);
\* otherwise it returns the timestamp of the first such row in row order,
\* which is the lowest such timestamp when the rows are in ascending
\* timestamp order, as check_patient_schedule passes them.
C2_FirstInRowOrder ==
  Looked =>
    /\ lk_result = None <=> LkCandidates = {}
    /\ LkCandidates # {} =>
         \E i \in DOMAIN lk_args.df :
           /\ LkMatches(i)
           /\ \A j \in 1 .. (i - 1) : ~LkMatches(j)
           /\ lk_result = Some(lk_args.df[i].APPT_DTTM)
    /\ (LkCandidates # {} /\ Ascending(lk_args.df)) =>
         lk_result = Some(Lowest(LkCandidates))

\* Sorted rows, two candidates of different timestamps, one exactly on the
\* window's upper edge: the lower one is returned.
C2_Witness ==
  /\ Looked
  /\ Ascending(lk_args.df)
  /\ Cardinality(LkCandidates) = 2
  /\ lk_args.base_time + lk_args.time_window_days * SlotsPerDay \in LkCandidates
  /\ lk_result = Some(Lowest(LkCandidates))

\* ------------------------------------------------------ the script's run
MRNs == 1 .. NumPatients

\* Scheduler i is the i-th identifier in sorted order.
Schedulers == 1 .. NumSchedulers

\* datetime.now() is the last slot of day 1 or the first slot of day 2.
NowTimes == {At(1, SlotsPerDay - 1), At(2, 0)}

\* Relative to the earlier `now`: the slot before it, now, a day after now,
\* the last instant of the lookahead and the first one past it.
BatchTimes ==
  LET n == At(1, SlotsPerDay - 1)
  IN {n - 1, n, n + timedelta(1), n + timedelta(LOOKAHEAD_DAYS),
      n + timedelta(LOOKAHEAD_DAYS) + 1}

BatchTypes == {"Lab", "Chemo"}

BatchRows ==
  [PATIENT_MRN : MRNs, APPT_TYPE : BatchTypes, APPT_DTTM : BatchTimes,
   SCHEDULER_ID : Schedulers]

\* Mutant: the upper bound of the date filter is missing.
date_filter_noUpper(df, now) == SelectSeq(df, LAMBDA r : r.APPT_DTTM >= now)

date_filter(df, now) ==
  LET future_date_limit == now + timedelta(LOOKAHEAD_DAYS)
  IN SelectSeq(df, LAMBDA r : /\ r.APPT_DTTM >= now
                              /\ r.APPT_DTTM <= future_date_limit)

\* groupby('PATIENT_MRN'): the keys in ascending order ...
RECURSIVE AscendingKeys(_)
AscendingKeys(S) ==
  IF S = {} THEN <<>>
  ELSE LET m == Lowest(S) IN <<m>> \o AscendingKeys(S \ {m})

group_keys(df) == AscendingKeys({r.PATIENT_MRN : r \in Range(df)})

\* ... and each key's rows, in the frame's row order.
group_rows(df, mrn) == SelectSeq(df, LAMBDA r : r.PATIENT_MRN = mrn)

\* Mutant: the scheduler of the patient's last row.
first_scheduler_last(appts) == appts[Len(appts)].SCHEDULER_ID

\* patient_appts['SCHEDULER_ID'].iloc[0]
first_scheduler(appts) == appts[1].SCHEDULER_ID

\* format_and_send_reports: the report printed, scheduler by scheduler in
\* ascending order, each with its patients in ascending order and their flags.
format_and_send_reports(flagged) ==
  IF flagged = <<>>
    THEN <<"REPORTS", "No scheduling errors were found">>
    ELSE <<"REPORTS",
           [sch \in {flagged[i].SCHEDULER_ID : i \in DOMAIN flagged} |->
              [mrn \in {flagged[i].PATIENT_MRN :
                          i \in {j \in DOMAIN flagged :
                                   flagged[j].SCHEDULER_ID = sch}} |->
                 flagged[CHOOSE i \in DOMAIN flagged :
                           /\ flagged[i].SCHEDULER_ID = sch
                           /\ flagged[i].PATIENT_MRN = mrn].FLAGS]]>>

Init ==
  /\ pc = "start"
  /\ file_exists \in BOOLEAN
  /\ file_rows \in (IF file_exists THEN SeqsUpTo(BatchRows, MaxRows) ELSE {<<>>})
  /\ df_all = <<>>
  /\ today = 0
  /\ df_filtered = <<>>
  /\ todo = <<>>
  /\ all_flags = <<>>
  /\ console = <<>>
  /\ PatientIdle
  /\ LookupIdle

\* read_csv raises FileNotFoundError: the message, then exit().
LoadMissing ==
  /\ pc = "start"
  /\ ~file_exists
  /\ console' = Append(console, <<"Error: input file not found">>)
  /\ pc' = "exited"
  /\ UNCHANGED <<file_exists, file_rows, df_all, today, df_filtered, todo,
                 all_flags, patientVars, lookupVars>>

Load ==
  /\ pc = "start"
  /\ file_exists
  /\ df_all' = file_rows
  /\ console' = Append(console, <<"Loaded", Len(file_rows)>>)
  /\ pc' = "loaded"
  /\ UNCHANGED <<file_exists, file_rows, today, df_filtered, todo, all_flags,
                 patientVars, lookupVars>>

\* Mutant: the `if df_filtered.empty: exit()` test is missing.
Filter_noExit ==
  /\ pc = "loaded"
  /\ today' \in NowTimes
  /\ df_filtered' = date_filter(df_all, today')
  /\ console' = Append(console, <<"Filtered to", Len(df_filtered')>>)
  /\ todo' = group_keys(df_filtered')
  /\ pc' = "scan"
  /\ UNCHANGED <<file_exists, file_rows, df_all, all_flags, patientVars,
                 lookupVars>>

\* The date filter, its message, and the exit when nothing is left.
Filter ==
  /\ pc = "loaded"
  /\ today' \in NowTimes
  /\ df_filtered' = date_filter(df_all, today')
  /\ IF df_filtered' = <<>>
       THEN /\ console' = console \o <<<<"Filtered to", 0>>,
                                       <<"No upcoming appointments found">>>>
            /\ todo' = <<>>
            /\ pc' = "exited"
       ELSE /\ console' = Append(console, <<"Filtered to", Len(df_filtered')>>)
            /\ todo' = group_keys(df_filtered')
            /\ pc' = "scan"
  /\ UNCHANGED <<file_exists, file_rows, df_all, all_flags, patientVars,
                 lookupVars>>

\* One iteration of the loop over the patients' groups.
ScanPatient ==
  /\ pc = "scan"
  /\ todo # <<>>
  /\ LET mrn == Head(todo)
         appts == group_rows(df_filtered, mrn)
     IN \E flags_found \in check_patient_schedule(appts) :
          /\ patient_appts' = appts
          /\ returned' = flags_found
          /\ all_flags' =
               IF flags_found # <<>>
                 THEN Append(all_flags,
                             [PATIENT_MRN |-> mrn,
                              SCHEDULER_ID |-> first_scheduler(appts),
                              FLAGS |-> flags_found])
                 ELSE all_flags
  /\ todo' = Tail(todo)
  /\ UNCHANGED <<pc, file_exists, file_rows, df_all, today, df_filtered,
                 console, sorted_appts, emitted, flags, lookupVars>>

Report ==
  /\ pc = "scan"
  /\ todo = <<>>
  /\ console' = Append(console, format_and_send_reports(all_flags))
  /\ pc' = "done"
  /\ UNCHANGED <<file_exists, file_rows, df_all, today, df_filtered, todo,
                 all_flags, patientVars, lookupVars>>

Next == LoadMissing \/ Load \/ Filter \/ ScanPatient \/ Report

Spec == Init /\ [][Next]_vars

\* --------------------------------------------------- claims on the script
\* The rows of the loaded table of patient `mrn` dated within
\* [now, now + 120 days], in the table's row order.
InWindowOf(mrn) ==
  SelectSeq(df_all, LAMBDA r : /\ r.PATIENT_MRN = mrn
                               /\ today <= r.APPT_DTTM
                               /\ r.APPT_DTTM <= today + 120 * SlotsPerDay)

\* The flag sets check_patient_schedule yields on those rows alone.
InWindowFlagSets(mrn) == {Range(l) : l \in check_patient_schedule(InWindowOf(mrn))}

RecordsOf(mrn) == {i \in DOMAIN all_flags : all_flags[i].PATIENT_MRN = mrn}

Scanned(mrn) ==
  \/ pc = "done"
  \/ pc = "scan" /\ mrn \notin Range(todo)

\* C8: the flags collected for a patient are the flags check_patient_schedule
\* yields on that patient's appointments with now <= timestamp <= now +
\* horizon alone (nothing dated outside reaches or alters them); a patient
\* with no flag on those rows has none collected.
C8_InWindowOnly ==
  \A mrn \in MRNs :
    Scanned(mrn) =>
      /\ \A i \in RecordsOf(mrn) :
           Range(all_flags[i].FLAGS) \in InWindowFlagSets(mrn)
      /\ (RecordsOf(mrn) = {}) => ({} \in InWindowFlagSets(mrn))

\* A patient whose flags would differ had the out-of-window rows been kept.
C8_Witness ==
  /\ pc = "done"
  /\ \E i \in DOMAIN all_flags :
       LET mrn == all_flags[i].PATIENT_MRN
       IN /\ Len(group_rows(df_all, mrn)) > Len(InWindowOf(mrn))
          /\ \A l \in check_patient_schedule(group_rows(df_all, mrn)) :
               Range(l) # Range(all_flags[i].FLAGS)

\* C9: after the scan there is exactly one record for each patient whose
\* in-window appointments yield a flag and none for any other patient, and a
\* record's scheduler_id is that of the patient's first in-window row in the
\* table's row order.
C9_OneRecordFirstScheduler ==
  pc = "done" =>
    \A mrn \in MRNs :
      /\ Cardinality(RecordsOf(mrn)) =
           IF {} \in InWindowFlagSets(mrn) THEN 0 ELSE 1
      /\ \A i \in RecordsOf(mrn) :
           all_flags[i].SCHEDULER_ID = InWindowOf(mrn)[1].SCHEDULER_ID

\* A flagged patient whose in-window rows carry different scheduler ids and
\* whose first row of the whole table is out of the window.
C9_Witness ==
  /\ pc = "done"
  /\ \E i \in DOMAIN all_flags :
       LET mrn == all_flags[i].PATIENT_MRN
           rows == InWindowOf(mrn)
       IN /\ Len(rows) = 2
          /\ rows[1].SCHEDULER_ID # rows[2].SCHEDULER_ID
          /\ group_rows(df_all, mrn)[1] # rows[1]
          /\ all_flags[i].SCHEDULER_ID = rows[1].SCHEDULER_ID

\* ------------------------------------------- order of the rows supplied
\* C11: the set of flags returned depends only on the set of appointments:
\* every run on the rows in any order q, under any order the sort leaves rows
\* of equal timestamp in, returns the same set of flags as the run observed
\* on the rows in timestamp order (hence any two runs agree).
C11_OrderIndependent ==
  (Returned /\ Ascending(patient_appts)) =>
    \A q \in Reorderings(patient_appts) :
      \A l \in check_patient_schedule(q) : Range(l) = Range(returned)

\* Three rows, two of them of different types sharing a timestamp, which can
\* be supplied out of timestamp order, and two different flags returned.
C11_Witness ==
  /\ Returned
  /\ Ascending(patient_appts)
  /\ \E q \in Reorderings(patient_appts) : ~Ascending(q)
  /\ \E i, j \in DOMAIN patient_appts :
       /\ i # j
       /\ patient_appts[i].APPT_DTTM = patient_appts[j].APPT_DTTM
       /\ patient_appts[i].APPT_TYPE # patient_appts[j].APPT_TYPE
  /\ Len(returned) = 2

\* ------------------------------------------------------ no error outcome
\* C12: check_patient_schedule never raises: every call has a flag list to
\* return and none ends by an exception, also when a trigger has no related
\* appointment, and on the empty set the list returned is empty.
C12_NeverRaises ==
  /\ pc # "raised"
  /\ pc = "call" =>
       \E s \in sort_values(patient_appts) :
         /\ \A i \in DOMAIN s : ~ApptRaises(s, s[i])
         /\ UniqueLists(Concat(LoopEmits(s))) # {}
  /\ (Returned /\ patient_appts = <<>>) => returned = <<>>

\* A visit with no Mammogram and a therapy with no CT Simulation within 14
\* days (both lookups return None): the call returns, with no flag for them.
C12_Witness ==
  /\ Returned
  /\ \E i \in RowsOfType(sorted_appts, "Oncology Visit") :
       /\ InInterval(patient_appts, "Mammogram", sorted_appts[i].APPT_DTTM, 14) = {}
       /\ emitted[i] = <<>>
  /\ \E i \in RowsOfType(sorted_appts, "Radiation Therapy") :
       /\ InInterval(patient_appts, "CT Simulation", sorted_appts[i].APPT_DTTM, 14) = {}
       /\ emitted[i] = <<>>

\* ------------------------------------------------- order of the script
ReportPrinted == \E i \in DOMAIN console : console[i][1] = "REPORTS"

\* ScanPatient has called check_patient_schedule (a group is never empty).
Validated == patient_appts # <<>>

\* C13: a patient is validated, a flag collected or the report printed only
\* after the input file was loaded and the filtered table is non-empty; a
\* missing file, or no appointment within [now, now + horizon], ends the run
\* with its own message, no patient validated, no flag and no report.
C13_OnlyAfterLoadAndNonEmpty ==
  /\ (Validated \/ all_flags # <<>> \/ ReportPrinted) =>
       /\ file_exists
       /\ df_all = file_rows
       /\ df_filtered # <<>>
       /\ console[1] = <<"Loaded", Len(file_rows)>>
       /\ console[2] = <<"Filtered to", Len(df_filtered)>>
  /\ pc = "exited" =>
       /\ ~Validated
       /\ all_flags = <<>>
       /\ ~ReportPrinted
       /\ ~ENABLED Next
       /\ IF file_exists
            THEN /\ df_filtered = <<>>
                 /\ console = <<<<"Loaded", Len(file_rows)>>, <<"Filtered to", 0>>,
                                <<"No upcoming appointments found">>>>
            ELSE /\ df_all = <<>>
                 /\ console = <<<<"Error: input file not found">>>>

\* A loaded table whose appointments all lie outside the window: the run has
\* ended with the 'no upcoming appointments' message.
C13_Witness ==
  /\ pc = "exited"
  /\ file_exists
  /\ Len(df_all) = MaxRows
  /\ df_filtered = <<>>
  /\ console[Len(console)] = <<"No upcoming appointments found">>

\* ------------------------------------------- every appointment is checked
\* What the rule table asks of one appointment, read off the patient's set
\* with the interval centred on the appointment's own timestamp.
ExpectedOf(appt) ==
  LET T == appt.APPT_DTTM
      labs == InInterval(patient_appts, "Lab", T, 7)
      mammos == InInterval(patient_appts, "Mammogram", T, 14)
      sims == InInterval(patient_appts, "CT Simulation", T, 14)
  IN CASE appt.APPT_TYPE = "Chemo" ->
            IF labs = {} THEN {CriticalNoLab(T)}
            ELSE IF Lowest(labs) > T THEN {OrderLabAfter(Lowest(labs), T)}
            ELSE IF date(Lowest(labs)) = date(T)
                   THEN {TimingSameDay(Lowest(labs), T)}
            ELSE {}
       [] appt.APPT_TYPE = "Oncology Visit" ->
            IF mammos = {} THEN {}
            ELSE IF Lowest(mammos) > T THEN {OrderVisitBefore(Lowest(mammos), T)}
            ELSE IF date(T) - date(Lowest(mammos)) < 2
                   THEN {TimingTooSoon(Lowest(mammos), T)}
            ELSE {}
       [] appt.APPT_TYPE = "Radiation Therapy" ->
            IF sims # {} /\ Lowest(sims) > T
              THEN {OrderRadBefore(Lowest(sims), T)}
              ELSE {}
       [] OTHER -> {}

\* C14: the rule of its type is applied to every appointment of a trigger
\* type, with the lookup centred on its own timestamp, and the flags returned
\* are those of all of them: each Chemo whose own 7-day window holds no Lab
\* contributes a 'no Lab' flag naming its own date; an appointment of any
\* other type contributes nothing.
C14_EveryAppointment ==
  Returned =>
    /\ Len(emitted) = Len(patient_appts)
    /\ \A i \in DOMAIN sorted_appts :
         Range(emitted[i]) = ExpectedOf(sorted_appts[i])
    /\ Range(returned) = UNION {ExpectedOf(a) : a \in Range(patient_appts)}
    /\ \A a \in Range(patient_appts) :
         (a.APPT_TYPE = "Chemo"
          /\ InInterval(patient_appts, "Lab", a.APPT_DTTM, 7) = {})
           => CriticalNoLab(a.APPT_DTTM) \in Range(returned)
    /\ \A i \in DOMAIN sorted_appts :
         sorted_appts[i].APPT_TYPE
           \notin {"Chemo", "Oncology Visit", "Radiation Therapy"}
           => emitted[i] = <<>>

\* Two Chemo on different dates, neither with a Lab in its own window though
\* the set holds a Lab: two 'no Lab' flags, one per date.
C14_Witness ==
  /\ Returned
  /\ RowsOfType(patient_appts, "Lab") # {}
  /\ \E i, j \in RowsOfType(sorted_appts, "Chemo") :
       /\ date(sorted_appts[i].APPT_DTTM) # date(sorted_appts[j].APPT_DTTM)
       /\ emitted[i] = <<CriticalNoLab(sorted_appts[i].APPT_DTTM)>>
       /\ emitted[j] = <<CriticalNoLab(sorted_appts[j].APPT_DTTM)>>
  /\ Len(returned) = 2

\* C15: a Chemo at T contributes the 'Lab is AFTER Chemo' flag exactly when
\* some Lab lies in [T - 7 days, T + 7 days] and every Lab there is strictly
\* later than T; and when some Lab in [T - 7 days, T] is on an earlier
\* calendar date than the Chemo, the Chemo contributes no flag at all.
C15_EarliestLabDecides ==
  Returned =>
    \A i \in RowsOfType(sorted_appts, "Chemo") :
      LET T == sorted_appts[i].APPT_DTTM
          labs == InInterval(patient_appts, "Lab", T, 7)
      IN /\ (\E f \in Range(emitted[i]) : Kind(f) = "Order Error: Lab AFTER Chemo")
              <=> (labs # {} /\ \A l \in labs : l > T)
         /\ (\E l \in labs : l <= T /\ date(l) < date(T)) => emitted[i] = <<>>

\* A Lab on an earlier date, a second Lab after the Chemo: no flag.
C15_Witness ==
  /\ Returned
  /\ \E i \in RowsOfType(sorted_appts, "Chemo") :
       LET T == sorted_appts[i].APPT_DTTM
           labs == InInterval(patient_appts, "Lab", T, 7)
       IN /\ \E l \in labs : l <= T /\ date(l) < date(T)
          /\ \E l \in labs : l > T
          /\ emitted[i] = <<>>
          /\ returned = <<>>

====
